---- MODULE Spec2Model ----
(***************************************************************************)
(* Pytorrent: a Session facade and a TorrentInfo facade over the           *)
(* libtorrent engine, and the Torrent client object that composes them.    *)
(*                                                                         *)
(* The engine is outside the repository.  Each of its calls either raises  *)
(* or answers; a session keeps its rate limits, its DHT and pause flags,   *)
(* its torrents and its alert queue, and answers the getters of its other  *)
(* settings as it sees fit.                                                *)
(*                                                                         *)
(* Three specifications share the state:                                   *)
(*   Spec       the calls forwarded by Session, and the constructors;      *)
(*   SpecLimits the rate limits of Session;                                *)
(*   SpecInfo   the records of TorrentInfo over a changing file system.    *)
(***************************************************************************)
EXTENDS Integers, Sequences, FiniteSets, TLC

(* ------------------------------ bounds -------------------------------- *)

\* Engine sessions made in one run (the constructor's, and create_session).
MaxSessions == 2

\* Alerts the engine posts to one session.
MaxAlerts == 2

\* Longest list of files (and of trackers) in a torrent descriptor.
MaxEntries == 2

(* --------------------------- input domains ---------------------------- *)

\* Rates passed to the limit setters: minimal, unlimited, a specific limit,
\* and a rate below the minimal one.
Rates == {-2, -1, 0, 1}

Interfaces == {"0.0.0.0", "127.0.0.1"}

Ports == {6881}

TorrentArgs == {"t1"}

Values == {0, 1}

Paths == {"a.torrent", "b.torrent"}

\* What an engine operation with nothing to report may return.
CommandAnswers == {"None", "False"}

\* What the engine raises when a call fails.
EngineError == "RuntimeError"

(* ------------------------------ state --------------------------------- *)

VARIABLES
    engine,     \* the engine sessions made so far, by identity (index):
                \* <<its state>>, or <<>> once the Session object has let go
                \* of it
    self,       \* the fields of the Session object
    disk,       \* what the engine finds at each descriptor path
    tinfo,      \* the fields of the TorrentInfo object
    held,       \* <<the Info record a caller holds>>, or <<>>
    client,     \* <<the attributes of the Torrent object>>, or <<>>
    call        \* the facade call that just ended: what was passed, what the
                \* engine received and answered, and how the call ended

sessionVars == <<engine, self>>

infoVars == <<disk, tinfo, held, client>>

vars == <<engine, self, disk, tinfo, held, client, call>>

(* --------------------------- engine objects --------------------------- *)

\* lt.session(settings): a new engine session holding the given settings.
NewEngineSession(settings) ==
    [settings |-> settings, dl |-> 0, ul |-> 0, dht |-> FALSE,
     paused |-> FALSE, torrents |-> {}, posted |-> 0, alerts |-> <<>>]

\* One call on an engine object (0 is the libtorrent module itself), as the
\* engine sees it, with its answer: <<value>>, or <<>> when it raised.
EngineCall(obj, op, args, answer) ==
    [obj |-> obj, op |-> op, args |-> args, answer |-> answer]

\* The record of a facade call: its name and arguments, the engine calls it
\* made in order, which of them raised (0: none) and what, the exception
\* that left the facade method ("" if none), and the value it returned
\* (<<v>>; <<>> if none).
Called(method, args, calls, failed, error, raised, result) ==
    [method |-> method, args |-> args, calls |-> calls, failed |-> failed,
     error |-> error, raised |-> raised, result |-> result]

\* f'{self._listen_interfaces}:{self._port}'
ListenInterfaces(iface, port) == iface \o ":" \o ToString(port)

\* The conversion a plain pass-through of the rate would be.
LimitFromKB_PassThrough(rate) == rate

\* int(-1 if rate == 0 else (1 if rate == -1 else rate * 1024))
LimitFromKB(rate) ==
    IF rate = 0 THEN -1 ELSE IF rate = -1 THEN 1 ELSE rate * 1024

\* The engine session the facade forwards to: self._session.
Session == engine[self._session][1]

(* --------------------- Session: construction -------------------------- *)

\* A create_session that keeps the session the object has, if it has one.
CreateSession_KeepsExisting(slf, eng) ==
    LET settings == ListenInterfaces(slf._listen_interfaces, slf._port)
        new      == IF slf._session # 0 THEN slf._session ELSE Len(eng) + 1
    IN  [calls  |-> <<EngineCall(0, "session", <<settings>>, <<new>>)>>,
         engine |-> IF slf._session # 0 THEN eng
                    ELSE Append(eng, <<NewEngineSession(settings)>>),
         self   |-> [slf EXCEPT !._session = new],
         result |-> new]

\* create_session(): self._session = self._lt.session({...}); return it.
\* Gives the engine call made, and the object and the engine sessions after
\* it.  The session the object referred to before (0: none) is out of its
\* reach from then on.
CreateSession(slf, eng) ==
    LET settings == ListenInterfaces(slf._listen_interfaces, slf._port)
        new      == Len(eng) + 1
        kept     == IF slf._session = 0 THEN eng
                    ELSE [eng EXCEPT ![slf._session] = <<>>]
    IN  [calls  |-> <<EngineCall(0, "session", <<settings>>, <<new>>)>>,
         engine |-> Append(kept, <<NewEngineSession(settings)>>),
         self   |-> [slf EXCEPT !._session = new],
         result |-> new]

\* A constructor that makes an engine session whatever it is given.
Construct_AlwaysCreates(user_agent, listen_interfaces, port, download_rate_limit, upload_rate_limit, session, eng) ==
    LET stored == [_user_agent |-> user_agent,
                   _listen_interfaces |-> listen_interfaces,
                   _port |-> port,
                   _download_rate_limit |-> download_rate_limit,
                   _upload_rate_limit |-> upload_rate_limit,
                   _session |-> session]
        made == CreateSession(stored, eng)
    IN  [calls |-> made.calls, engine |-> made.engine, self |-> made.self]

\* __init__: the fields are stored, then self._session = session or
\* self.create_session().  `session` is 0 for None, else the identity of an
\* engine session that exists already (in `eng`).
Construct(user_agent, listen_interfaces, port, download_rate_limit, upload_rate_limit, session, eng) ==
    LET stored == [_user_agent |-> user_agent,
                   _listen_interfaces |-> listen_interfaces,
                   _port |-> port,
                   _download_rate_limit |-> download_rate_limit,
                   _upload_rate_limit |-> upload_rate_limit,
                   _session |-> session]
        made == CreateSession(stored, eng)
    IN  IF session # 0
        THEN [calls |-> <<>>, engine |-> eng, self |-> stored]
        ELSE [calls |-> made.calls, engine |-> made.engine, self |-> made.self]

\* The engine sessions a caller may hold before constructing the Session.
ExistingSessions == << <<NewEngineSession("external")>> >>

\* The state after Session(...) with the listen address drawn from
\* `interfaces` and the rate limits from `limits`.
InitSession(interfaces, limits) ==
    \E ua \in {"Python client v1.0.0"}, li \in interfaces, port \in Ports,
       dl \in limits, ul \in limits, session \in {0, 1} :
        LET eng == IF session = 0 THEN <<>> ELSE ExistingSessions
            c   == Construct(ua, li, port, dl, ul, session, eng)
        IN  /\ engine = c.engine
            /\ self = c.self
            /\ call = Called("__init__",
                             <<ua, li, port, dl, ul, session>>,
                             c.calls, 0, "", "", <<>>)

\* create_session() and __call__() (which returns self.create_session()).
DoCreateSession(method) ==
    /\ Len(engine) < MaxSessions
    /\ UNCHANGED infoVars
    /\ \E fail \in BOOLEAN :
        LET made == CreateSession(self, engine)
        IN  /\ engine' = IF fail THEN engine ELSE made.engine
            /\ self' = IF fail THEN self ELSE made.self
            /\ call' = IF fail
                       THEN Called(method, <<>>,
                                   <<[made.calls[1] EXCEPT !.answer = <<>>]>>,
                                   1, EngineError, EngineError, <<>>)
                       ELSE Called(method, <<>>, made.calls, 0, "", "",
                                   <<made.result>>)

create_session == DoCreateSession("create_session")

call_session == DoCreateSession("__call__")

(* --------------------- Session: forwarding ---------------------------- *)

\* A forward that calls the engine again when it raised.
Forward_Retries(method, args, op, eargs, after, answer, result) ==
    \E fail \in BOOLEAN :
        /\ UNCHANGED infoVars
        /\ engine' = [engine EXCEPT ![self._session] = <<after>>]
        /\ call' = Called(method, args,
                          IF fail
                          THEN <<EngineCall(self._session, op, eargs, <<>>),
                                 EngineCall(self._session, op, eargs,
                                            <<answer>>)>>
                          ELSE <<EngineCall(self._session, op, eargs,
                                            <<answer>>)>>,
                          0, "", "", <<result>>)
        /\ UNCHANGED self

\* A forward that catches what the engine raises and reports it by False.
Forward_Catches(method, args, op, eargs, after, answer, result) ==
    \E fail \in BOOLEAN :
        /\ UNCHANGED infoVars
        /\ engine' = IF fail THEN engine
                     ELSE [engine EXCEPT ![self._session] = <<after>>]
        /\ call' = Called(method, args,
                          <<EngineCall(self._session, op, eargs,
                                       IF fail THEN <<>> ELSE <<answer>>)>>,
                          IF fail THEN 1 ELSE 0,
                          IF fail THEN EngineError ELSE "",
                          "",
                          IF fail THEN <<FALSE>> ELSE <<result>>)
        /\ UNCHANGED self

\* A method whose body is one engine call on self._session.  If the engine
\* raises, its exception leaves the method; otherwise the session becomes
\* `after`, the engine answers `answer` and the method returns `result`.
Forward(method, args, op, eargs, after, answer, result) ==
    \E fail \in BOOLEAN :
        /\ UNCHANGED infoVars
        /\ engine' = IF fail THEN engine
                     ELSE [engine EXCEPT ![self._session] = <<after>>]
        /\ call' = Called(method, args,
                          <<EngineCall(self._session, op, eargs,
                                       IF fail THEN <<>> ELSE <<answer>>)>>,
                          IF fail THEN 1 ELSE 0,
                          IF fail THEN EngineError ELSE "",
                          IF fail THEN EngineError ELSE "",
                          IF fail THEN <<>> ELSE <<result>>)
        /\ UNCHANGED self

\* A setter whose body is an engine call followed by `return` of a second
\* engine call (the getter), whose answer is the engine's.  fail: the
\* engine call that raises (0: none).
ForwardAndReadBack(method, args, op, eargs, getter, gargs) ==
    \E fail \in 0 .. 2, answer \in Values :
        LET first  == EngineCall(self._session, op, eargs,
                                 IF fail = 1 THEN <<>> ELSE <<"None">>)
            second == EngineCall(self._session, getter, gargs,
                                 IF fail = 2 THEN <<>> ELSE <<answer>>)
        IN  /\ call' = Called(method, args,
                              IF fail = 1 THEN <<first>>
                              ELSE <<first, second>>,
                              fail,
                              IF fail # 0 THEN EngineError ELSE "",
                              IF fail # 0 THEN EngineError ELSE "",
                              IF fail # 0 THEN <<>> ELSE <<answer>>)
            /\ UNCHANGED <<engine, self>>
            /\ UNCHANGED infoVars

\* A command that returns True when the engine returned None, and False
\* when it returned something else.
Command_ReturnsAnswer(method, args, after) ==
    \E answer \in CommandAnswers :
        Forward(method, args, method, args, after, answer, answer = "None")

\* A command: self._session.<method>(args); return True.  Whatever the
\* engine returns is dropped.
Command(method, args, after) ==
    \E answer \in CommandAnswers :
        Forward(method, args, method, args, after, answer, TRUE)

(* --------------------- Session: rate limits --------------------------- *)

\* A limit setter that records the limit as both limits.
SetLimit_Both(method, field, op, rate) ==
    \E fail \in BOOLEAN :
        LET limit == LimitFromKB(rate)
        IN  /\ UNCHANGED infoVars
            /\ self' = [self EXCEPT !._download_rate_limit = limit,
                                    !._upload_rate_limit = limit]
            /\ engine' = IF fail THEN engine
                         ELSE [engine EXCEPT ![self._session][1][
                                   IF op = "set_download_rate_limit"
                                   THEN "dl" ELSE "ul"] = limit]
            /\ call' = Called(method, <<rate>>,
                              <<EngineCall(self._session, op, <<limit>>,
                                           IF fail THEN <<>> ELSE <<"None">>)>>,
                              IF fail THEN 1 ELSE 0,
                              IF fail THEN EngineError ELSE "",
                              IF fail THEN EngineError ELSE "",
                              IF fail THEN <<>> ELSE <<limit>>)


\* set_download_limit / set_upload_limit: the field is assigned the limit
\* converted from KB/s first, then handed to the engine, then returned.
SetLimit(method, field, op, rate) ==
    \E fail \in BOOLEAN :
        LET limit == LimitFromKB(rate)
        IN  /\ UNCHANGED infoVars
            /\ self' = [self EXCEPT ![field] = limit]
            /\ engine' = IF fail THEN engine
                         ELSE [engine EXCEPT ![self._session][1][
                                   IF op = "set_download_rate_limit"
                                   THEN "dl" ELSE "ul"] = limit]
            /\ call' = Called(method, <<rate>>,
                              <<EngineCall(self._session, op, <<limit>>,
                                           IF fail THEN <<>> ELSE <<"None">>)>>,
                              IF fail THEN 1 ELSE 0,
                              IF fail THEN EngineError ELSE "",
                              IF fail THEN EngineError ELSE "",
                              IF fail THEN <<>> ELSE <<limit>>)

set_download_limit ==
    \E rate \in Rates :
        SetLimit("set_download_limit", "_download_rate_limit",
                 "set_download_rate_limit", rate)

set_upload_limit ==
    \E rate \in Rates :
        SetLimit("set_upload_limit", "_upload_rate_limit",
                 "set_upload_rate_limit", rate)

\* set_download_rate_limit / set_upload_rate_limit: the engine is called
\* with the rate as given, then the field is assigned, then returned.
SetRateLimit(method, field, rate) ==
    \E fail \in BOOLEAN :
        /\ UNCHANGED infoVars
        /\ engine' = IF fail THEN engine
                     ELSE [engine EXCEPT ![self._session][1][
                               IF method = "set_download_rate_limit"
                               THEN "dl" ELSE "ul"] = rate]
        /\ self' = IF fail THEN self ELSE [self EXCEPT ![field] = rate]
        /\ call' = Called(method, <<rate>>,
                          <<EngineCall(self._session, method, <<rate>>,
                                       IF fail THEN <<>> ELSE <<"None">>)>>,
                          IF fail THEN 1 ELSE 0,
                          IF fail THEN EngineError ELSE "",
                          IF fail THEN EngineError ELSE "",
                          IF fail THEN <<>> ELSE <<rate>>)

set_download_rate_limit ==
    \E rate \in Rates :
        SetRateLimit("set_download_rate_limit", "_download_rate_limit", rate)

set_upload_rate_limit ==
    \E rate \in Rates :
        SetRateLimit("set_upload_rate_limit", "_upload_rate_limit", rate)

\* return self._session.upload_rate_limit()
get_upload_limit ==
    Forward("get_upload_limit", <<>>, "upload_rate_limit", <<>>,
            Session, Session.ul, Session.ul)

\* return self._session.download_rate_limit()
get_download_limit ==
    Forward("get_download_limit", <<>>, "download_rate_limit", <<>>,
            Session, Session.dl, Session.dl)

(* --------------------- Session: commands ------------------------------ *)

add_dht_node ==
    \E node \in Values : Command("add_dht_node", <<node>>, Session)

load_state ==
    \E state \in Values : Command("load_state", <<state>>, Session)

pause == Command("pause", <<>>, [Session EXCEPT !.paused = TRUE])

resume == Command("resume", <<>>, [Session EXCEPT !.paused = FALSE])

start_dht == Command("start_dht", <<>>, [Session EXCEPT !.dht = TRUE])

stop_dht == Command("stop_dht", <<>>, [Session EXCEPT !.dht = FALSE])

(* --------------------- Session: calls that return the engine's answer - *)

\* return self._session.add_torrent(torrent_info)
add_torrent ==
    \E torrent_info \in TorrentArgs :
        Forward("add_torrent", <<torrent_info>>,
                "add_torrent", <<torrent_info>>,
                [Session EXCEPT !.torrents = @ \cup {torrent_info}],
                torrent_info, torrent_info)

\* result = self._session.remove_torrent(torrent_handle, options)
remove_torrent ==
    \E torrent_handle \in TorrentArgs, options \in Values :
        Forward("remove_torrent", <<torrent_handle, options>>,
                "remove_torrent", <<torrent_handle, options>>,
                [Session EXCEPT !.torrents = @ \ {torrent_handle}],
                torrent_handle \in Session.torrents,
                torrent_handle \in Session.torrents)

get_torrents ==
    Forward("get_torrents", <<>>, "get_torrents", <<>>,
            Session, Session.torrents, Session.torrents)

\* A pop_alerts that keeps the first alert the engine handed over.
pop_alerts_DropsFirst ==
    Forward("pop_alerts", <<>>, "pop_alerts", <<>>,
            [Session EXCEPT !.alerts = <<>>], Session.alerts,
            IF Session.alerts = <<>> THEN <<>> ELSE Tail(Session.alerts))

\* alerts = self._session.pop_alerts(): the engine hands over its queue.
pop_alerts ==
    Forward("pop_alerts", <<>>, "pop_alerts", <<>>,
            [Session EXCEPT !.alerts = <<>>], Session.alerts, Session.alerts)

(* --------------------- Session: setters that read back ---------------- *)

set_local_download_rate_limit ==
    \E rate \in Values :
        ForwardAndReadBack("set_local_download_rate_limit", <<rate>>,
                           "set_local_download_rate_limit", <<rate>>,
                           "local_download_rate_limit", <<>>)

set_max_connections ==
    \E max_conn \in Values :
        ForwardAndReadBack("set_max_connections", <<max_conn>>,
                           "set_max_connections", <<max_conn>>,
                           "max_connections", <<>>)

set_max_uploads ==
    \E max_uploads \in Values :
        ForwardAndReadBack("set_max_uploads", <<max_uploads>>,
                           "set_max_uploads", <<max_uploads>>,
                           "max_uploads", <<>>)

set_pe_settings ==
    \E pe_settings \in Values :
        ForwardAndReadBack("set_pe_settings", <<pe_settings>>,
                           "set_pe_settings", <<pe_settings>>,
                           "get_pe_settings", <<>>)

set_peer_class ==
    \E peer_class_id \in Values, peer_class \in Values :
        ForwardAndReadBack("set_peer_class", <<peer_class_id, peer_class>>,
                           "set_peer_class", <<peer_class_id, peer_class>>,
                           "get_peer_class", <<peer_class_id>>)

(* --------------------- the engine's own activity ---------------------- *)

\* The engine posts an alert to the queue of the session in use.
EnginePostsAlert ==
    /\ Session.posted < MaxAlerts
    /\ engine' = [engine EXCEPT
                    ![self._session][1].posted = @ + 1,
                    ![self._session][1].alerts =
                        Append(@, Session.posted + 1)]
    /\ UNCHANGED <<self, call>>
    /\ UNCHANGED infoVars

(* --------------------- torrent descriptors ---------------------------- *)

\* A file entry as the engine reports it.  path, size and offset are always
\* there; the other attributes depend on the entry.  Paths and symlink
\* paths are sequences of characters.
FileEntryOf(kind) ==
    CASE kind = 1 ->
            [path |-> <<"a">>, size |-> 1, offset |-> 0]
      [] kind = 2 ->
            [path |-> <<"d", "/", "b">>, size |-> 2, offset |-> 1,
             mtime |-> 5, executable_attribute |-> TRUE,
             hidden_attribute |-> TRUE, pad_file |-> TRUE,
             symlink_attribute |-> TRUE, symlink_path |-> <<"a">>]
      [] OTHER ->
            [path |-> <<"d", "/">>, size |-> 3, offset |-> 3,
             executable_attribute |-> TRUE, hidden_attribute |-> FALSE,
             symlink_attribute |-> FALSE, symlink_path |-> <<"c">>]

\* A tracker entry as the engine reports it.
TrackerEntryOf(kind) ==
    CASE kind = 1 ->
            [url |-> "u1"]
      [] kind = 2 ->
            [complete_sent |-> TRUE, fail_limit |-> 1, fails |-> 2,
             message |-> "m", min_announce |-> 3, next_announce |-> 4,
             scrape_complete |-> 5, scrape_downloaded |-> 6,
             scrape_incomplete |-> 7, source |-> "s", tier |-> 8,
             trackerid |-> "id", updating |-> TRUE, url |-> "u2",
             verified |-> TRUE]
      [] OTHER ->
            [complete_sent |-> FALSE, fails |-> 9, tier |-> 1,
             updating |-> TRUE, verified |-> FALSE]

EntryKinds == {1, 2, 3}

\* The entry kind that follows `kind` by `i` places, cyclically.
KindAfter(kind, i) == ((kind - 1 + i) % Cardinality(EntryKinds)) + 1

\* The object the engine gives for a descriptor of n files, of the kinds
\* first, first + 1, ... in this order, and n trackers of the same kinds in
\* the reverse order: what each of its accessors returns.
Descriptor(first, n) ==
    [name |-> "n", comment |-> "c", creation_date |-> 7,
     creator |-> "cr",
     files |-> [i \in 1 .. n |-> FileEntryOf(KindAfter(first, i - 1))],
     is_i2p |-> TRUE,
     is_merkle_torrent |-> (n % 2 = 1),
     is_valid |-> (n % 2 = 0),
     metadata_size |-> 100 + n,
     nodes |-> <<"node">>,
     num_files |-> n,
     num_pieces |-> 4,
     piece_length |-> 16,
     priv |-> FALSE,
     total_size |-> 64,
     trackers |-> [i \in 1 .. n |-> TrackerEntryOf(KindAfter(first, n - i))],
     web_seeds |-> <<"seed">>]

\* What a path can hold: <<>> when the engine cannot parse it, else
\* <<d>> for the descriptor of d.n files starting with the kind d.first.
Contents ==
    {<<>>} \cup
    {<<[first |-> IF n = 0 THEN 1 ELSE first, n |-> n]>> :
        first \in EntryKinds, n \in 0 .. MaxEntries}

\* self._lt.torrent_info(path): <<the object the engine gives>>, or <<>>
\* when it raises.
Parse(path) ==
    IF disk[path] = <<>> THEN <<>>
    ELSE <<Descriptor(disk[path][1].first, disk[path][1].n)>>

(* --------------------- TorrentInfo ------------------------------------ *)

\* A getattr that never finds the attribute.
getattr_AlwaysDefault(obj, name, default) == default

\* getattr(obj, name, default)
getattr(obj, name, default) ==
    IF name \in DOMAIN obj THEN obj[name] ELSE default

\* A basename that gives back the whole path.
basename_WholePath(path) == path

\* os.path.basename(path): what follows the last "/".
basename(path) ==
    LET slashes == {i \in 1 .. Len(path) : path[i] = "/"}
        last    == IF slashes = {} THEN 0
                   ELSE CHOOSE i \in slashes : \A j \in slashes : j <= i
    IN  SubSeq(path, last + 1, Len(path))

\* FileInfo(...) for one entry of torrent_info.files().
FileInfoOf(f) ==
    [file_name |-> basename(f.path),
     size |-> f.size,
     offset |-> f.offset,
     mtime |-> getattr(f, "mtime", 0),
     executable_attribute |-> getattr(f, "executable_attribute", FALSE),
     hidden_attribute |-> getattr(f, "hidden_attribute", FALSE),
     pad_file |-> getattr(f, "pad_file", FALSE),
     path |-> f.path,
     symlink_attribute |-> getattr(f, "symlink_attribute", FALSE),
     symlink_path |-> getattr(f, "symlink_path", <<>>)]

\* TrackerInfo(...) for one entry of torrent_info.trackers().
TrackerInfoOf(tracker) ==
    [complete_sent |-> getattr(tracker, "complete_sent", FALSE),
     fail_limit |-> getattr(tracker, "fail_limit", 0),
     fails |-> getattr(tracker, "fails", 0),
     message |-> getattr(tracker, "message", ""),
     min_announce |-> getattr(tracker, "min_announce", 0),
     next_announce |-> getattr(tracker, "next_announce", 0),
     scrape_complete |-> getattr(tracker, "scrape_complete", 0),
     scrape_downloaded |-> getattr(tracker, "scrape_downloaded", 0),
     scrape_incomplete |-> getattr(tracker, "scrape_incomplete", 0),
     source |-> getattr(tracker, "source", ""),
     tier |-> getattr(tracker, "tier", 0),
     trackerid |-> getattr(tracker, "trackerid", ""),
     updating |-> getattr(tracker, "updating", FALSE),
     url |-> getattr(tracker, "url", ""),
     verified |-> getattr(tracker, "verified", FALSE)]

\* A parse_file_info that lists the files last to first.
parse_file_info_Reversed(torrent_info) ==
    [i \in 1 .. Len(torrent_info.files) |->
        FileInfoOf(torrent_info.files[Len(torrent_info.files) + 1 - i])]

\* [FileInfo(...) for f in torrent_info.files()]
parse_file_info(torrent_info) ==
    [i \in 1 .. Len(torrent_info.files) |-> FileInfoOf(torrent_info.files[i])]

\* [TrackerInfo(...) for tracker in torrent_info.trackers()]
parse_tracker_info(torrent_info) ==
    [i \in 1 .. Len(torrent_info.trackers) |->
        TrackerInfoOf(torrent_info.trackers[i])]

\* Info(...) from the object the engine parsed.
InfoOf(torrent_info) ==
    [name |-> torrent_info.name,
     comment |-> torrent_info.comment,
     creation_date |-> torrent_info.creation_date,
     creator |-> torrent_info.creator,
     files_list |-> parse_file_info(torrent_info),
     is_i2p |-> torrent_info.is_i2p,
     is_merkle_torrent |-> torrent_info.is_merkle_torrent,
     is_valid |-> torrent_info.is_valid,
     metadata_size |-> torrent_info.metadata_size,
     nodes |-> torrent_info.nodes,
     num_files |-> torrent_info.num_files,
     num_pieces |-> torrent_info.num_pieces,
     piece_length |-> torrent_info.piece_length,
     priv |-> torrent_info.priv,
     total_size |-> torrent_info.total_size,
     trackers |-> parse_tracker_info(torrent_info),
     web_seeds |-> torrent_info.web_seeds]

\* The engine call self._lt.torrent_info(path) and its answer.
ParseCall(path) == EngineCall(0, "torrent_info", <<path>>, Parse(path))

\* TorrentInfo.__init__: the fields after it, given the descriptor the
\* engine parsed (_info is the object it gave for it).
TorrentInfoObject(path, parsed) == [_path |-> path, _info |-> parsed]

\* How a call that parses `path` once and does nothing else with the engine
\* ends: by the engine's exception if it cannot parse, else with `result`.
ParsedOnce(method, args, path, result) ==
    IF disk[path] = <<>>
    THEN Called(method, args, <<ParseCall(path)>>, 1, EngineError,
                EngineError, <<>>)
    ELSE Called(method, args, <<ParseCall(path)>>, 0, "", "", result)

\* TorrentInfo(path, libtorrent): the engine parses the path; if it cannot,
\* its exception leaves the constructor and no object is made.
TorrentInfo_init ==
    \E path \in Paths :
        /\ tinfo' = IF disk[path] = <<>> THEN tinfo
                    ELSE TorrentInfoObject(path, disk[path][1])
        /\ call' = ParsedOnce("TorrentInfo.__init__", <<path>>, path, <<>>)
        /\ UNCHANGED <<engine, self, disk, held, client>>

\* A create_torrent_info that builds the record from the object parsed in
\* the constructor, without asking the engine.
create_torrent_info_Cached ==
    LET info == InfoOf(Descriptor(tinfo._info.first, tinfo._info.n))
    IN  /\ held' = <<info>>
        /\ call' = Called("create_torrent_info", <<>>, <<>>, 0, "", "",
                          <<info>>)
        /\ UNCHANGED <<engine, self, disk, tinfo, client>>

\* create_torrent_info(): the engine parses self._path again and the
\* record is built from what it gives.  The caller keeps the record.
create_torrent_info ==
    LET parsed == Parse(tinfo._path)
    IN  /\ held' = IF parsed = <<>> THEN held ELSE <<InfoOf(parsed[1])>>
        /\ call' = ParsedOnce("create_torrent_info", <<>>, tinfo._path,
                              IF parsed = <<>> THEN <<>>
                              ELSE <<InfoOf(parsed[1])>>)
        /\ UNCHANGED <<engine, self, disk, tinfo, client>>

\* Info.as_dict(): asdict(self), the dict of the record's fields by name,
\* the records in its lists turned into dicts the same way.
asdict(info) ==
    [k \in DOMAIN info |->
        IF k \in {"files_list", "trackers"}
        THEN [i \in DOMAIN info[k] |->
                 [a \in DOMAIN info[k][i] |-> info[k][i][a]]]
        ELSE info[k]]

\* A method that calls create_torrent_info() once and returns a value of
\* class `class` made from the record's dict (None is made from nothing);
\* the record itself is not handed to the caller.
Shaped(method, class) ==
    LET parsed == Parse(tinfo._path)
    IN  /\ call' = ParsedOnce(method, <<>>, tinfo._path,
                              IF parsed = <<>> THEN <<>>
                              ELSE <<[class |-> class,
                                      of |-> IF class = "NoneType" THEN <<>>
                                             ELSE asdict(InfoOf(parsed[1]))]>>)
        /\ UNCHANGED <<engine, self, disk, tinfo, held, client>>

\* info_as_dict(): return self.create_torrent_info().as_dict()
info_as_dict == Shaped("info_as_dict", "dict")

\* show_info(): prints a line per item of info_as_dict(); returns None.
show_info == Shaped("show_info", "NoneType")

\* __str__: return str(self.info_as_dict())
TorrentInfo_str == Shaped("__str__", "str")

\* __call__: return self.create_torrent_info()
TorrentInfo_call ==
    LET parsed == Parse(tinfo._path)
    IN  /\ held' = IF parsed = <<>> THEN held ELSE <<InfoOf(parsed[1])>>
        /\ call' = ParsedOnce("TorrentInfo.__call__", <<>>, tinfo._path,
                              IF parsed = <<>> THEN <<>>
                              ELSE <<InfoOf(parsed[1])>>)
        /\ UNCHANGED <<engine, self, disk, tinfo, client>>

\* FileInfo, TrackerInfo and Info are dataclasses declared without
\* frozen=True: an assignment to a field of a record by whoever holds it
\* takes effect.
HolderAssigns ==
    /\ held # <<>>
    /\ \/ held' = <<[held[1] EXCEPT !.name = "assigned"]>>
       \/ held' = <<[held[1] EXCEPT !.files_list = <<>>]>>
    /\ held' # held
    /\ UNCHANGED <<engine, self, disk, tinfo, client, call>>

\* The descriptor file at a path is written, removed or damaged.
DescriptorWritten ==
    \E path \in Paths, content \in Contents :
        /\ content # disk[path]
        /\ disk' = [disk EXCEPT ![path] = content]
        /\ UNCHANGED <<engine, self, tinfo, held, client, call>>

(* --------------------- Torrent (client) ------------------------------- *)

\* Torrent.__init__: self._path = file_path;
\* self.info = TorrentInfo(path=self._path, libtorrent=lt).
\* Each attribute is given with the class of its value.
TorrentObject(file_path, parsed) ==
    [_path |-> [class |-> "str", value |-> <<file_path>>],
     info  |-> [class |-> "TorrentInfo",
                value |-> <<TorrentInfoObject(file_path, parsed)>>]]

Torrent_init ==
    \E file_path \in Paths :
        /\ client' = IF disk[file_path] = <<>> THEN client
                     ELSE <<TorrentObject(file_path, disk[file_path][1])>>
        /\ call' = ParsedOnce("Torrent.__init__", <<file_path>>, file_path,
                              <<>>)
        /\ UNCHANGED <<engine, self, disk, tinfo, held>>

(* --------------------- specifications --------------------------------- *)

\* A TorrentInfo made for a.torrent, a descriptor of two files, which may
\* have been damaged since (`states` says whether it can be); b.torrent
\* cannot be parsed.  No record is held and no Torrent is made yet.
InitInfo(states) ==
    /\ \E damaged \in states :
        disk = [p \in Paths |->
                  IF p = "a.torrent" /\ ~damaged
                  THEN <<[first |-> 2, n |-> 2]>> ELSE <<>>]
    /\ tinfo = TorrentInfoObject("a.torrent", [first |-> 2, n |-> 2])
    /\ held = <<>>
    /\ client = <<>>

\* The calls forwarded by a Session made with the default listen address
\* and rate limits, and the calls that make the engine parse a descriptor.
Init == InitSession({"0.0.0.0"}, {0}) /\ InitInfo(BOOLEAN)

Next ==
    \/ create_session
    \/ call_session
    \/ add_dht_node
    \/ load_state
    \/ pause
    \/ resume
    \/ start_dht
    \/ stop_dht
    \/ add_torrent
    \/ remove_torrent
    \/ get_torrents
    \/ pop_alerts
    \/ set_local_download_rate_limit
    \/ set_max_connections
    \/ set_max_uploads
    \/ set_pe_settings
    \/ set_peer_class
    \/ EnginePostsAlert
    \/ TorrentInfo_init
    \/ create_torrent_info
    \/ Torrent_init

Spec == Init /\ [][Next]_vars

\* The rate limits of a Session made with any rate limits.
InitLimits == InitSession(Interfaces, Values) /\ InitInfo({FALSE})

NextLimits ==
    \/ create_session
    \/ call_session
    \/ set_download_limit
    \/ set_upload_limit
    \/ set_download_rate_limit
    \/ set_upload_rate_limit
    \/ get_upload_limit
    \/ get_download_limit
    \/ add_torrent

SpecLimits == InitLimits /\ [][NextLimits]_vars

\* The records of TorrentInfo while descriptor files change and the holder
\* of a record assigns to it.
InitRecords ==
    /\ InitInfo({FALSE})
    /\ engine = ExistingSessions
    /\ self = Construct("Python client v1.0.0", "0.0.0.0", 6881, 0, 0, 1,
                        ExistingSessions).self
    /\ call = Called("TorrentInfo.__init__", <<"a.torrent">>,
                     <<EngineCall(0, "torrent_info", <<"a.torrent">>,
                                  <<Descriptor(2, 2)>>)>>,
                     0, "", "", <<>>)

NextInfo ==
    \/ TorrentInfo_init
    \/ create_torrent_info
    \/ HolderAssigns
    \/ DescriptorWritten

SpecInfo == InitRecords /\ [][NextInfo]_vars

\* Every way of asking the TorrentInfo made for a.torrent for its
\* metadata, while descriptor files change.
NextOnDemand ==
    \/ create_torrent_info
    \/ info_as_dict
    \/ show_info
    \/ TorrentInfo_str
    \/ TorrentInfo_call
    \/ DescriptorWritten

SpecOnDemand == InitRecords /\ [][NextOnDemand]_vars

(* ====================== claims ======================================== *)

SetLimitMethods == {"set_download_limit", "set_upload_limit"}

CreateMethods == {"create_session", "__call__"}

\* The Session methods whose body is one engine call with the arguments
\* of the method.
OneCallMethods ==
    {"set_download_rate_limit", "set_upload_rate_limit", "get_upload_limit",
     "get_download_limit", "add_dht_node", "load_state", "pause", "resume",
     "start_dht", "stop_dht", "add_torrent", "remove_torrent",
     "get_torrents", "pop_alerts"}

ReadBackSetters ==
    {"set_local_download_rate_limit", "set_max_connections",
     "set_max_uploads", "set_pe_settings", "set_peer_class"}

\* The last call was create_torrent_info() and it returned a record.
RecordReturned ==
    call.method = "create_torrent_info" /\ call.failed = 0

\* The object the engine parsed for the last call, and the record returned.
Reported == call.calls[1].answer[1]

Produced == call.result[1]

(* ------------------------------ C1 ------------------------------------ *)

\* C1 as claimed: for every Session method and every argument value, the
\* engine receives the arguments the caller passed, set_download_limit and
\* set_upload_limit included.
C1_ArgumentsUnchanged ==
    call.method \in SetLimitMethods \cup OneCallMethods
        => call.calls[1].args = call.args

\* C1 as amended: every Session method other than set_download_limit and
\* set_upload_limit hands the engine the arguments it was given, and a
\* method that returns the engine's answer returns it unchanged;
\* set_download_limit(rate) and set_upload_limit(rate) hand the engine the
\* rate converted from KB/s: -1 for 0, 1 for -1, rate * 1024 otherwise.
C1_ArgumentsForwarded ==
    /\ call.method \in OneCallMethods => call.calls[1].args = call.args
    /\ call.method \in SetLimitMethods =>
          LET rate == call.args[1]
          IN  call.calls[1].args =
                <<CASE rate = 0 -> -1 [] rate = -1 -> 1 [] OTHER -> rate * 1024>>
    /\ (call.method \in {"add_torrent", "get_download_limit",
                         "get_upload_limit"} /\ call.failed = 0)
          => call.result = call.calls[1].answer

\* set_download_limit(1) gave the engine 1024.
C1_Witness ==
    /\ call.method = "set_download_limit"
    /\ call.args = <<1>>
    /\ call.calls[1].args = <<1024>>
    /\ call.failed = 0

(* ------------------------------ C2 ------------------------------------ *)

\* C2 as claimed: each call of a Session method, the setters that read
\* back included, makes exactly one engine call, of the same name.
C2_ExactlyOneEngineCall ==
    call.method \in OneCallMethods \cup ReadBackSetters
        => Len(call.calls) = 1 /\ call.calls[1].op = call.method

\* C2 as amended: a command or query method makes exactly one engine call,
\* of the same name, and never repeats it; a setter that reads back
\* (set_max_connections, set_max_uploads, set_peer_class,
\* set_local_download_rate_limit, set_pe_settings) makes the same-named
\* engine call once and, unless that call raised, one call of the matching
\* getter, whose answer it returns: two engine calls.
C2_OneForwardThenReadBack ==
    /\ call.method \in OneCallMethods \ {"get_upload_limit",
                                         "get_download_limit"}
          => Len(call.calls) = 1 /\ call.calls[1].op = call.method
    /\ call.method \in ReadBackSetters =>
          /\ call.calls[1].op = call.method
          /\ Len(call.calls) = IF call.failed = 1 THEN 1 ELSE 2
          /\ Len(call.calls) = 2 =>
                call.calls[2].op =
                    CASE call.method = "set_local_download_rate_limit"
                            -> "local_download_rate_limit"
                      [] call.method = "set_max_connections"
                            -> "max_connections"
                      [] call.method = "set_max_uploads" -> "max_uploads"
                      [] call.method = "set_pe_settings" -> "get_pe_settings"
                      [] OTHER -> "get_peer_class"
          /\ call.failed = 0 => call.result = call.calls[2].answer

\* set_peer_class returned after two engine calls.
C2_Witness ==
    /\ call.method = "set_peer_class"
    /\ call.failed = 0
    /\ Len(call.calls) = 2

(* ------------------------------ C3 ------------------------------------ *)

\* C3 as claimed: the engine session in use right after construction (the
\* first one) is the one the object refers to and the one that receives
\* every call, whatever facade operations came before.
C3_SingleEngineSession ==
    /\ self._session = 1
    /\ \A i \in 1 .. Len(call.calls) : call.calls[i].obj \in {0, 1}

\* C3 as amended: every call goes to the engine session the object refers
\* to at the time; every operation other than create_session() and calling
\* the object leaves that reference in place; create_session() and calling
\* the object, when the engine does not raise, replace it by a newly made
\* engine session in its initial state, so that the state set earlier is
\* no longer the state later calls reach.
C3_SessionReplacedOnlyByCreate ==
    /\ [](/\ call.method \in OneCallMethods \cup ReadBackSetters =>
                \A i \in 1 .. Len(call.calls) :
                    call.calls[i].obj = self._session
          /\ (call.method \in CreateMethods /\ call.failed = 0) =>
                /\ call.calls[1].obj = 0
                /\ self._session = call.result[1]
                /\ self._session = Len(engine)
                /\ Len(engine) >= 2
                /\ \A k \in 1 .. Len(engine) - 1 : engine[k] = <<>>)
    /\ [][ /\ Len(engine') = Len(engine) => self'._session = self._session
           /\ Len(engine') # Len(engine) =>
                 /\ call'.method \in CreateMethods
                 /\ call'.failed = 0
                 /\ self'._session = Len(engine) + 1
                 /\ self'._session # self._session
                 /\ engine'[self'._session][1].dl = 0
                 /\ engine'[self'._session][1].ul = 0
                 /\ ~engine'[self'._session][1].dht
                 /\ ~engine'[self'._session][1].paused
                 /\ engine'[self'._session][1].torrents = {}
                 /\ engine'[self'._session][1].alerts = <<>>
         ]_vars

\* After create_session(), start_dht() started the DHT of the second
\* engine session.
C3_Witness ==
    /\ self._session = 2
    /\ call.method = "start_dht"
    /\ call.failed = 0
    /\ call.calls[1].obj = 2
    /\ Session.dht

(* ------------------------------ C4 ------------------------------------ *)

\* C4: when an engine call raises, the facade method ends with the
\* engine's exception, returns no value and makes no further engine call;
\* when none raises, no exception leaves the method.
C4_EngineFailurePropagates ==
    /\ call.failed # 0 =>
          /\ call.error # ""
          /\ call.raised = call.error
          /\ call.result = <<>>
          /\ call.failed = Len(call.calls)
          /\ call.calls[call.failed].answer = <<>>
    /\ call.failed = 0 => call.raised = ""

\* load_state ended by the engine's exception.
C4_Witness ==
    /\ call.method = "load_state"
    /\ call.failed = 1
    /\ call.raised = EngineError

(* ------------------------------ C5 ------------------------------------ *)

\* The field `a` of a record is the attribute `a` of the engine's entry if
\* the entry has it, and `default` if not.
Mirrors(rec, entry, a, default) ==
    rec[a] = IF a \in DOMAIN entry THEN entry[a] ELSE default

\* C5: each field of a produced FileInfo or TrackerInfo that the engine's
\* entry has an attribute for equals that attribute when it is present and
\* the default when it is absent (False, 0, 0.0, ""); each scalar field of
\* Info equals what the parsed object reports.
C5_RecordsMirrorEngine ==
    RecordReturned =>
        /\ \A a \in {"name", "comment", "creation_date", "creator",
                     "num_files", "num_pieces", "piece_length",
                     "total_size", "priv", "is_valid", "metadata_size",
                     "nodes", "web_seeds", "is_i2p", "is_merkle_torrent"} :
               Produced[a] = Reported[a]
        /\ \A i \in DOMAIN Produced.files_list \cap DOMAIN Reported.files :
               LET r == Produced.files_list[i]
                   f == Reported.files[i]
               IN  /\ r.size = f.size /\ r.offset = f.offset
                   /\ r.path = f.path
                   /\ Mirrors(r, f, "mtime", 0)
                   /\ \A a \in {"executable_attribute", "hidden_attribute",
                                "pad_file", "symlink_attribute"} :
                          Mirrors(r, f, a, FALSE)
                   /\ Mirrors(r, f, "symlink_path", <<>>)
        /\ \A i \in DOMAIN Produced.trackers \cap DOMAIN Reported.trackers :
               LET r == Produced.trackers[i]
                   t == Reported.trackers[i]
               IN  /\ \A a \in {"complete_sent", "updating", "verified"} :
                          Mirrors(r, t, a, FALSE)
                   /\ \A a \in {"fail_limit", "fails", "min_announce",
                                "next_announce", "scrape_complete",
                                "scrape_downloaded", "scrape_incomplete",
                                "tier"} :
                          Mirrors(r, t, a, 0)
                   /\ \A a \in {"message", "source", "trackerid", "url"} :
                          Mirrors(r, t, a, "")

\* A record was produced from a descriptor with a file that has an mtime
\* and a file that has none.
C5_Witness ==
    /\ RecordReturned
    /\ \E i, j \in DOMAIN Reported.files :
          /\ "mtime" \in DOMAIN Reported.files[i]
          /\ Produced.files_list[i].mtime = 5
          /\ "mtime" \notin DOMAIN Reported.files[j]
          /\ Produced.files_list[j].mtime = 0

(* ------------------------------ C6 ------------------------------------ *)

\* The field `a` of a record is the attribute `a` of the engine's entry,
\* or `default`.
CopiedOrDefault(rec, entry, a, default) ==
    \/ rec[a] = default
    \/ a \in DOMAIN entry /\ rec[a] = entry[a]

\* C6 as claimed: no field holds a value computed from an engine value;
\* FileInfo.file_name, like the others, is a text the engine reported for
\* the entry or the default.
C6_NothingComputed ==
    RecordReturned =>
        \A i \in DOMAIN Produced.files_list \cap DOMAIN Reported.files :
            LET f == Reported.files[i]
            IN  Produced.files_list[i].file_name \in
                    {f.path, <<>>} \cup
                    (IF "symlink_path" \in DOMAIN f
                     THEN {f.symlink_path} ELSE {})

\* C6 as amended: every field of a produced FileInfo, TrackerInfo or Info
\* other than FileInfo.file_name is a value the engine reported for the
\* entry or the default; FileInfo.file_name is computed from the engine's
\* path: it is what follows the last "/" of the path (the whole path if
\* there is none).
C6_FileNameIsLastComponent ==
    RecordReturned =>
        /\ \A i \in DOMAIN Produced.files_list \cap DOMAIN Reported.files :
               LET r == Produced.files_list[i]
                   f == Reported.files[i]
                   p == f.path
               IN  /\ \E k \in 0 .. Len(p) :
                          /\ k = 0 \/ p[k] = "/"
                          /\ r.file_name = SubSeq(p, k + 1, Len(p))
                   /\ \A j \in 1 .. Len(r.file_name) : r.file_name[j] # "/"
                   /\ CopiedOrDefault(r, f, "path", <<>>)
                   /\ CopiedOrDefault(r, f, "symlink_path", <<>>)
                   /\ \A a \in {"size", "offset", "mtime"} :
                          CopiedOrDefault(r, f, a, 0)
                   /\ \A a \in {"executable_attribute", "hidden_attribute",
                                "pad_file", "symlink_attribute"} :
                          CopiedOrDefault(r, f, a, FALSE)
        /\ \A i \in DOMAIN Produced.trackers \cap DOMAIN Reported.trackers :
               LET r == Produced.trackers[i]
                   t == Reported.trackers[i]
               IN  /\ \A a \in {"complete_sent", "updating", "verified"} :
                          CopiedOrDefault(r, t, a, FALSE)
                   /\ \A a \in {"fail_limit", "fails", "min_announce",
                                "next_announce", "scrape_complete",
                                "scrape_downloaded", "scrape_incomplete",
                                "tier"} :
                          CopiedOrDefault(r, t, a, 0)
                   /\ \A a \in {"message", "source", "trackerid", "url"} :
                          CopiedOrDefault(r, t, a, "")

\* A record was produced whose file d/b has the file_name b.
C6_Witness ==
    /\ RecordReturned
    /\ \E i \in DOMAIN Produced.files_list :
          /\ Produced.files_list[i].path = <<"d", "/", "b">>
          /\ Produced.files_list[i].file_name = <<"b">>

(* ------------------------------ C7 ------------------------------------ *)

\* C7: files_list has one FileInfo per entry of files() and trackers one
\* TrackerInfo per entry of trackers(), in the engine's order, none
\* dropped, repeated or moved.
C7_ListsKeepOrder ==
    RecordReturned =>
        /\ Len(Produced.files_list) = Len(Reported.files)
        /\ \A i \in 1 .. Len(Reported.files) :
               /\ Produced.files_list[i].path = Reported.files[i].path
               /\ Produced.files_list[i].size = Reported.files[i].size
               /\ Produced.files_list[i].offset = Reported.files[i].offset
        /\ Len(Produced.trackers) = Len(Reported.trackers)
        /\ \A i \in 1 .. Len(Reported.trackers) :
               LET t == Reported.trackers[i]
               IN  /\ Produced.trackers[i].url =
                         (IF "url" \in DOMAIN t THEN t.url ELSE "")
                   /\ Produced.trackers[i].fails =
                         (IF "fails" \in DOMAIN t THEN t.fails ELSE 0)

\* A record was produced from a descriptor of two different files and two
\* different trackers.
C7_Witness ==
    /\ RecordReturned
    /\ Len(Produced.files_list) = 2
    /\ Produced.files_list[1].path # Produced.files_list[2].path
    /\ Len(Produced.trackers) = 2
    /\ Produced.trackers[1].fails # Produced.trackers[2].fails

(* ------------------------------ C8 ------------------------------------ *)

\* C8 as claimed: once create_torrent_info() has returned a record, the
\* record a caller holds never changes, whatever happens later (only a
\* later create_torrent_info() gives the caller another record).
C8_RecordsNeverChange ==
    [][(held # <<>> /\ ~create_torrent_info) => held' = held]_vars

(* ------------------------------ C9 ------------------------------------ *)

\* C9 as claimed: Torrent(file_path) succeeds whenever the engine can parse
\* file_path, and the object made holds a TorrentInfo for that path and a
\* Session.
C9_TorrentHoldsBothFacades ==
    /\ (call.method = "Torrent.__init__" /\ call.calls[1].answer # <<>>)
          => call.failed = 0
    /\ client # <<>> =>
          /\ \E a \in DOMAIN client[1] :
                /\ client[1][a].class = "TorrentInfo"
                /\ <<client[1][a].value[1]._path>> = client[1]._path.value
          /\ \E a \in DOMAIN client[1] : client[1][a].class = "Session"

(* ------------------------------ C10 ----------------------------------- *)

\* C10: given an engine session, the constructor uses it and makes none;
\* given None, it makes exactly one, configured with listen_interfaces
\* '<listen_interfaces>:<port>', and the object refers to it.
C10_ConstructorUsesOrCreates ==
    call.method = "__init__" =>
        LET listen  == call.args[2] \o ":" \o ToString(call.args[3])
            session == call.args[6]
        IN  IF session # 0
            THEN /\ call.calls = <<>>
                 /\ self._session = session
                 /\ Len(engine) = 1
                 /\ engine[session] = ExistingSessions[session]
            ELSE /\ Len(call.calls) = 1
                 /\ call.calls[1].obj = 0
                 /\ call.calls[1].op = "session"
                 /\ call.calls[1].args = <<listen>>
                 /\ call.calls[1].answer = <<self._session>>
                 /\ Len(engine) = 1
                 /\ Session.settings = listen

\* Session(listen_interfaces="127.0.0.1", session=None) made one engine
\* session.
C10_Witness ==
    /\ call.method = "__init__"
    /\ call.args[2] = "127.0.0.1"
    /\ call.args[6] = 0
    /\ Len(call.calls) = 1
    /\ Session.settings = "127.0.0.1:6881"

(* ------------------------------ C11 ----------------------------------- *)

DownloadSetters == {"set_download_limit", "set_download_rate_limit"}

UploadSetters == {"set_upload_limit", "set_upload_rate_limit"}

\* C11 as claimed: set_download_limit(rate) and set_upload_limit(rate)
\* give the engine rate * 1024 for a positive rate, the unlimited value -1
\* for rate 0 and 1 for rate -1, return the value given to the engine, and
\* for no rate other than 0 give the engine a negative limit.
C11_LimitsFromKBPerSecond ==
    call.method \in SetLimitMethods =>
        LET rate  == call.args[1]
            given == call.calls[1].args[1]
        IN  /\ rate > 0 => given = rate * 1024
            /\ rate = 0 => given = -1
            /\ rate = -1 => given = 1
            /\ call.failed = 0 => call.result = <<given>>
            /\ rate # 0 => given >= 0

(* ------------------------------ C12 ----------------------------------- *)

\* C12 as claimed: right after construction, get_download_limit() and
\* get_upload_limit() return limits that correspond to the constructor's
\* download_rate_limit and upload_rate_limit (the argument itself, or the
\* argument converted from KB/s as the limit setters convert it).
C12_ConstructorLimitsApplied ==
    [][ /\ (call.method = "__init__" /\ call'.method = "get_download_limit"
               /\ call'.failed = 0)
            => call'.result[1] \in
                  {call.args[4],
                   CASE call.args[4] = 0 -> -1 [] call.args[4] = -1 -> 1
                     [] OTHER -> call.args[4] * 1024}
        /\ (call.method = "__init__" /\ call'.method = "get_upload_limit"
               /\ call'.failed = 0)
            => call'.result[1] \in
                  {call.args[5],
                   CASE call.args[5] = 0 -> -1 [] call.args[5] = -1 -> 1
                     [] OTHER -> call.args[5] * 1024}
      ]_vars

(* ------------------------------ C13 ----------------------------------- *)

CommandMethods ==
    {"add_dht_node", "load_state", "pause", "resume", "start_dht",
     "stop_dht"}

\* C13: a command method returns True exactly when its engine call
\* returned without raising; when the engine raised it returns nothing,
\* and what the engine returned does not decide the result.
C13_TrueIffEngineReturned ==
    call.method \in CommandMethods =>
        /\ Len(call.calls) = 1
        /\ call.failed = 0 => call.result = <<TRUE>>
        /\ call.failed # 0 => call.result = <<>> /\ call.raised # ""
        /\ call.failed = 0 <=> call.calls[1].answer # <<>>

\* load_state returned True although the engine's load_state returned
\* False.
C13_Witness ==
    /\ call.method = "load_state"
    /\ call.failed = 0
    /\ call.calls[1].answer = <<"False">>
    /\ call.result = <<TRUE>>

(* ------------------------------ C14 ----------------------------------- *)

\* C14: pop_alerts() makes one engine call and returns the list the engine
\* returned, in its order; the Session object has no field to keep alerts
\* in; an alert leaves the engine's queue only as part of the result of a
\* pop_alerts() that did not raise, together with all the alerts queued
\* before it, and an alert returned is not in the queue afterwards.
C14_AlertsDeliveredOnce ==
    /\ [](/\ DOMAIN self = {"_user_agent", "_listen_interfaces", "_port",
                            "_download_rate_limit", "_upload_rate_limit",
                            "_session"}
          /\ call.method = "pop_alerts" =>
                /\ Len(call.calls) = 1
                /\ call.calls[1].op = "pop_alerts"
                /\ call.failed = 0 =>
                      /\ call.result = call.calls[1].answer
                      /\ \A i \in 1 .. Len(call.result[1]) :
                            \A j \in 1 .. Len(Session.alerts) :
                                call.result[1][i] # Session.alerts[j])
    /\ [][ Len(engine') = Len(engine) =>
              LET before == engine[self._session][1].alerts
                  after  == engine'[self._session][1].alerts
              IN  after # before =>
                      \/ /\ Len(after) = Len(before) + 1
                         /\ SubSeq(after, 1, Len(before)) = before
                      \/ /\ after = <<>>
                         /\ call'.method = "pop_alerts"
                         /\ call'.failed = 0
                         /\ call'.result = <<before>>
         ]_vars

\* pop_alerts() returned the two alerts the engine had queued, in order,
\* and the queue is empty.
C14_Witness ==
    /\ call.method = "pop_alerts"
    /\ call.failed = 0
    /\ call.result = <<<<1, 2>>>>
    /\ Session.alerts = <<>>

(* ------------------------------ C15 ----------------------------------- *)

\* The recorded limit is the limit of the engine session in use.
DownloadMirrored == self._download_rate_limit = Session.dl

UploadMirrored == self._upload_rate_limit = Session.ul

\* C15 as claimed: once a download-limit setter has been called, the
\* recorded download limit equals that of the engine session in use,
\* whatever limit setters, create_session() and calls of the object follow;
\* likewise for upload.
C15_RecordedLimitsMirrorEngine ==
    /\ [](/\ call.method \in DownloadSetters => DownloadMirrored
          /\ call.method \in UploadSetters => UploadMirrored)
    /\ [][ /\ DownloadMirrored => DownloadMirrored'
           /\ UploadMirrored => UploadMirrored' ]_vars

(* ------------------------------ C16 ----------------------------------- *)

\* C16 as claimed: when the engine raises in set_download_limit,
\* set_upload_limit, set_download_rate_limit or set_upload_rate_limit, the
\* recorded download and upload limits are what they were before the call.
C16_FailedChangeKeepsRecord ==
    [][ (call'.method \in DownloadSetters \cup UploadSetters
            /\ call'.failed # 0)
        => /\ self'._download_rate_limit = self._download_rate_limit
           /\ self'._upload_rate_limit = self._upload_rate_limit ]_vars

(* ------------------------------ C17 ----------------------------------- *)

\* C17: a download-limit setter changes no recorded value but the download
\* limit, calls the engine's set_download_rate_limit only, and leaves the
\* recorded and the engine's upload limit as they were; an upload-limit
\* setter likewise leaves the download limit.
C17_LimitsIndependent ==
    [][ /\ call'.method \in DownloadSetters =>
              /\ self' = [self EXCEPT !._download_rate_limit =
                                          self'._download_rate_limit]
              /\ engine'[self._session][1].ul = engine[self._session][1].ul
              /\ \A i \in 1 .. Len(call'.calls) :
                    call'.calls[i].op = "set_download_rate_limit"
        /\ call'.method \in UploadSetters =>
              /\ self' = [self EXCEPT !._upload_rate_limit =
                                          self'._upload_rate_limit]
              /\ engine'[self._session][1].dl = engine[self._session][1].dl
              /\ \A i \in 1 .. Len(call'.calls) :
                    call'.calls[i].op = "set_upload_rate_limit"
      ]_vars

\* set_download_limit(1) made the download limit 1024 while the upload
\* limit, set to 1 before, stayed 1 in the record and in the engine.
C17_Witness ==
    /\ call.method = "set_download_limit"
    /\ call.failed = 0
    /\ self._download_rate_limit = 1024
    /\ Session.dl = 1024
    /\ self._upload_rate_limit = 1
    /\ Session.ul = 1

(* ------------------------------ C18 ----------------------------------- *)

OnDemandMethods ==
    {"create_torrent_info", "info_as_dict", "show_info", "__str__",
     "TorrentInfo.__call__"}

\* C18: each call of create_torrent_info(), info_as_dict(), show_info(),
\* str() or of the TorrentInfo object makes the engine parse self._path
\* once, and nothing else; if the file cannot be parsed at that time the
\* call ends by the engine's exception, whatever was parsed at
\* construction; otherwise what is returned is built from the file as it
\* is at that time, not from the object parsed at construction, which the
\* call leaves as it was.
C18_ParsedAgainOnEveryCall ==
    [][ (call'.method \in OnDemandMethods /\ disk' = disk) =>
          LET now == disk[tinfo._path]
          IN  /\ tinfo' = tinfo
              /\ Len(call'.calls) = 1
              /\ call'.calls[1].obj = 0
              /\ call'.calls[1].op = "torrent_info"
              /\ call'.calls[1].args = <<tinfo._path>>
              /\ now = <<>> =>
                    /\ call'.failed = 1
                    /\ call'.raised # ""
                    /\ call'.result = <<>>
                    /\ call'.calls[1].answer = <<>>
              /\ now # <<>> =>
                    /\ call'.failed = 0
                    /\ call'.calls[1].answer # <<>>
                    /\ call'.calls[1].answer[1].num_files = now[1].n
                    /\ Len(call'.calls[1].answer[1].files) = now[1].n
                    /\ call'.method \in {"create_torrent_info",
                                         "TorrentInfo.__call__"} =>
                          /\ call'.result[1].num_files = now[1].n
                          /\ Len(call'.result[1].files_list) = now[1].n
                          /\ held' = call'.result
                    /\ call'.method \in {"info_as_dict", "__str__"} =>
                          /\ call'.result[1].of.num_files = now[1].n
                          /\ Len(call'.result[1].of.files_list) = now[1].n
      ]_vars

\* The TorrentInfo was made when a.torrent described two files; the file
\* has been rewritten to describe one, and info_as_dict() gave one file.
C18_Witness ==
    /\ tinfo._path = "a.torrent"
    /\ tinfo._info.n = 2
    /\ disk["a.torrent"] # <<>>
    /\ disk["a.torrent"][1].n = 1
    /\ call.method = "info_as_dict"
    /\ call.failed = 0
    /\ call.result[1].of.num_files = 1
    /\ Len(call.result[1].of.files_list) = 1

====
